---------------------------- MODULE Spec2Model ----------------------------
(***************************************************************************)
(* Tiered hotel refresh scheduler, partition refresh executor, inventory   *)
(* store upsert and search freshness cache of the Traveller partner        *)
(* service.                                                                *)
(*                                                                         *)
(* Three groups of state share this module; each specification moves one   *)
(* group and leaves the others at their initial value:                     *)
(*   SpecCache  - search_history table and the cached search path          *)
(*   SpecSched  - APScheduler jobs, worker pool, manual trigger, job_stats  *)
(*   SpecBatch, SpecFault, SpecRace - hotels/amenities/images tables and    *)
(*                the SQLAlchemy sessions of the writers                    *)
(*   SpecCacheFault  - cached search with a failing cache operation        *)
(*   SpecRefreshCall - geocoding and search request of one refresh         *)
(*   SpecStatsRead   - job_stats writers and one statistics read           *)
(*   SpecLifecycle   - start_scheduler / stop_scheduler call sequences     *)
(*   SpecManual      - the scheduler with manual triggers of any city      *)
(***************************************************************************)
EXTENDS Integers, Sequences, FiniteSets, Bags, TLC

(***************************************************************************)
(* Bounds of the model.                                                    *)
(***************************************************************************)
NumFps == 2          \* distinct search fingerprints
MaxTime == 2         \* clock ticks
CacheDuration == 1   \* search_cache.cache_duration_minutes, in clock ticks
MaxEntries == 1      \* search_cache.max_cache_entries
NumCities == 3       \* partitions of city_demand_levels
MaxWorkers == 2      \* scheduler_settings.max_workers
NumIds == 3          \* distinct external hotel identifiers upstream
MaxBatch == 3        \* hotels in one upstream answer to a refresh
MaxFaults == 1       \* database statements that fail in one behaviour
NumKeys == 2         \* distinct top-level keys of a search parameter set
MaxDrain == 2        \* ticks of waiting in stop_scheduler that are counted
MaxConfig == 3       \* city entries in city_demand_config.json

VARIABLES
    \* ---- search freshness cache (search_history table) ----
    now,          \* datetime.utcnow(), in ticks
    cache,        \* rows of search_history
    last,         \* what the most recent cached search saw and did
    inserted,     \* fingerprints for which a row was ever put
    evictedMax,   \* largest created_at among the rows evicted so far (-1: none)
    lastHit       \* fingerprint most recently answered from the cache (0: none)

cacheVars == <<now, cache, last, inserted, evictedMax, lastHit>>

VARIABLES
    \* ---- tiered scheduler (HotelSchedulerService) ----
    schedRunning, \* self.scheduler is set and scheduler.running
    jobs,         \* partitions with a job in the job store
    inst,         \* per partition: its scheduled instance (none/queued/running)
    poolQueue,    \* work queue of the ThreadPoolExecutor
    manual,       \* partition of the manual refresh in flight (0: none)
    job_stats,    \* self.job_stats
    lastFault,    \* per partition: what failed outside the refresh in its last run
    lastTick      \* what the most recent timer tick found and did

schedVars == <<schedRunning, jobs, inst, poolQueue, manual, job_stats,
               lastFault, lastTick>>

VARIABLES
    \* ---- inventory store and its writers ----
    store,        \* committed tables: hotels, hotel_amenities, hotel_images
    sess,         \* per writer: its SQLAlchemy session (open transaction, pending)
    wkind,        \* per writer: "refresh" (_process_hotel_batch) or "live"
    wpc,          \* per writer: where it is in its upsert
    batch,        \* per writer: the hotels it is processing
    idx,          \* per writer: position in batch
    cur,          \* per writer: the hotel at hand (row id, state before the attempt)
    bstats,       \* per writer: batch_stats
    upstream,     \* what the Inventory Source holds for the partition
    prepop,       \* the store held a record before the first refresh
    run,          \* refreshes of the partition started so far
    count1,       \* hotel records after the first refresh (-1: not finished)
    refresh_stats,\* what refresh_hotels_for_city returned last
    faults,       \* database statements that failed so far
    failedPre     \* hotels whose upsert failed: their state before the attempt

storeVars == <<store, sess, wkind, wpc, batch, idx, cur, bstats, upstream,
               prepop, run, count1, refresh_stats, faults, failedPre>>

VARIABLES
    \* ---- search fingerprint (generate_search_hash) ----
    params,       \* a parameter set: (key, value) pairs in insertion order
    params2,      \* a second parameter set derived from the first
    derived,      \* how params2 was derived: "none", "reordered", "changed"
    digests       \* the digests of both, once computed

hashVars == <<params, params2, derived, digests>>

VARIABLES
    \* ---- shutdown of the scheduler (stop_scheduler) ----
    stopPc,       \* "no", "waiting" (inside shutdown(wait=True)), "returned", "noop"
    drainTicks    \* time stop_scheduler has spent waiting for runs in flight

stopVars == <<stopPc, drainTicks>>

VARIABLES
    \* ---- registration of the city jobs (_add_city_jobs) ----
    config,       \* city_demand_levels, flattened: (name, state, country, minutes)
    regIdx,       \* the entry _add_city_jobs is at
    regStarted,   \* scheduler.start() was called
    regRound,     \* runs of _add_city_jobs begun
    pendingJobs,  \* scheduler._pending_jobs (jobs added before start)
    jobstore      \* the MemoryJobStore: jobs by id

regVars == <<config, regIdx, regStarted, regRound, pendingJobs, jobstore>>

VARIABLES
    \* ---- concurrent cached searches (_search_hotels_with_cache) ----
    spc,          \* per search: where it is
    sfp,          \* per search: its fingerprint
    sret,         \* per search: what the Inventory Source returned
    sseen,        \* per search: save_search_history found a row of the fingerprint
    sres          \* per search: "none", "ok" (returned), "failed" (raised)

searchVars == <<spc, sfp, sret, sseen, sres>>

Searches == {1, 2}

\* which cache operation of the last cached search raised, and whether its
\* upstream call had succeeded
VARIABLES cfault, cfaultUp

cfaultVars == <<cfault, cfaultUp>>

\* one execution of refresh_hotels_for_city up to its search request: the
\* partition, the geocoding answer, the coordinates resolved, the calls made
\* to the Inventory Source and the status returned
VARIABLES rcity, rstate, geo, rpc, coords, rcalls, rstatus

callVars == <<rcity, rstate, geo, rpc, coords, rcalls, rstatus>>

\* the job-statistics table as its readers see it: the number of the
\* execution whose entry each partition holds, and the passes of one
\* statistics read
VARIABLES executions, rdPc, countedFrom, detailsFrom

statsVars == <<executions, rdPc, countedFrom, detailsFrom>>

\* the BackgroundScheduler objects created by start_scheduler calls, the one
\* self.scheduler refers to, their timers and the runs they have in flight
VARIABLES schedulers, current, timers, inflight

lifeVars == <<schedulers, current, timers, inflight>>

lateVars == <<cfaultVars, callVars, statsVars, lifeVars>>

earlyVars == <<cacheVars, schedVars, storeVars, hashVars, stopVars, regVars,
               searchVars>>

notCFault == <<callVars, statsVars, lifeVars>>
notCall == <<earlyVars, cfaultVars, statsVars, lifeVars>>
notStats == <<earlyVars, cfaultVars, callVars, lifeVars>>
notLife == <<earlyVars, cfaultVars, callVars, statsVars>>

moreVars == <<hashVars, stopVars, regVars, searchVars, lateVars>>

\* Everything but the variables of one group.
notHash == <<cacheVars, schedVars, storeVars, stopVars, regVars, searchVars,
            lateVars>>
notStop == <<cacheVars, storeVars, hashVars, regVars, searchVars, lateVars>>
notReg == <<cacheVars, schedVars, storeVars, hashVars, stopVars, searchVars,
           lateVars>>
notSearch == <<now, last, inserted, evictedMax, lastHit, schedVars, storeVars,
               hashVars, stopVars, regVars, lateVars>>

vars == <<cacheVars, schedVars, storeVars, moreVars>>

Fps == 1..NumFps

\* A result snapshot is the list of hotels of one upstream answer.
Snapshots == {<<>>, <<1>>, <<1, 2>>}

MaxOf(S) == CHOOSE x \in S : \A y \in S : y <= x

\* Python truthiness of a list: [] is falsy.
Truthy(l) == Len(l) > 0

(***************************************************************************)
(* HotelRepository: search_history                                         *)
(***************************************************************************)

\* db.query(SearchHistory).filter(search_hash == h): the matching rows.
Matching(c, h) == {e \in c : e.search_hash = h}

\* get_search_history: .first() of the matching rows (precondition: one exists).
get_search_history(c, h) == CHOOSE e \in Matching(c, h) : TRUE

\* (mutant: the entry counts as expired from the instant expires_at on)
Expired_AtExpiry(t, e) == t >= e.expires_at

\* The expiry test of is_search_fresh: datetime.utcnow() > expires_at.
Expired(t, e) == t > e.expires_at

\* is_search_fresh: [ret, cache] - the answer and the table after its commit.
is_search_fresh(c, h, t) ==
    IF Matching(c, h) = {}
    THEN [ret |-> FALSE, cache |-> c]
    ELSE LET e == get_search_history(c, h) IN
         IF Expired(t, e)
         THEN [ret |-> FALSE,
               cache |-> (c \ {e}) \cup {[e EXCEPT !.is_fresh = FALSE]}]
         ELSE [ret |-> e.is_fresh, cache |-> c]

\* get_fresh_search_results: the snapshot, or [] for a miss.
get_fresh_search_results(c, h, t) ==
    IF Matching(c, h) = {}
    THEN [ret |-> <<>>, cache |-> c]
    ELSE LET e == get_search_history(c, h)
             f == is_search_fresh(c, h, t)
         IN  [ret |-> IF f.ret THEN e.search_results ELSE <<>>, cache |-> f.cache]

\* save_search_history: update the row in place, or insert a new one.
\* The put without the lookup of lines 252-254: always an INSERT.
save_search_history_Insert(c, h, results, t, duration) ==
    c \cup {[search_hash |-> h, search_results |-> results,
             hotels_count |-> Len(results), created_at |-> t,
             expires_at |-> t + duration,
             is_fresh |-> TRUE]}

save_search_history(c, h, results, t, duration) ==
    IF Matching(c, h) # {}
    THEN LET e == get_search_history(c, h) IN
         (c \ {e}) \cup {[e EXCEPT !.search_results = results,
                                   !.hotels_count = Len(results),
                                   !.expires_at = t + duration,
                                   !.is_fresh = TRUE]}
    ELSE c \cup {[search_hash |-> h, search_results |-> results,
                  hotels_count |-> Len(results), created_at |-> t,
                  expires_at |-> t + duration,
                  is_fresh |-> TRUE]}

\* The first loop of cleanup_expired_searches: expires_at < utcnow() -> not fresh.
MarkExpired(c, t) ==
    {IF e.expires_at < t THEN [e EXCEPT !.is_fresh = FALSE] ELSE e : e \in c}

\* order_by(created_at.asc()).limit(n): every set of n rows that an ascending
\* order on created_at can put first (rows of equal created_at in any order).
\* (mutant: the newest rows are the ones deleted)
OldestN_Newest(c, n) ==
    {D \in SUBSET c : /\ Cardinality(D) = n
                      /\ \A d \in D : \A r \in c \ D : d.created_at >= r.created_at}

OldestN(c, n) ==
    {D \in SUBSET c : /\ Cardinality(D) = n
                      /\ \A d \in D : \A r \in c \ D : d.created_at <= r.created_at}

\* cleanup_expired_searches: the tables it can leave behind.
cleanup_expired_searches(c, t, max_entries) ==
    LET m == MarkExpired(c, t)
        total == Cardinality(m)
    IN  IF total > max_entries
        THEN {m \ D : D \in OldestN(m, total - max_entries)}
        ELSE {m}

(***************************************************************************)
(* HotelService._search_hotels_with_cache, one request of a single caller. *)
(***************************************************************************)

\* What the request finds before it acts (recorded in last).
Seen(h) ==
    IF Matching(cache, h) = {}
    THEN [fp |-> h, t |-> now, entry |-> FALSE, is_fresh |-> FALSE,
          expires_at |-> 0, before |-> <<>>]
    ELSE LET e == get_search_history(cache, h) IN
         [fp |-> h, t |-> now, entry |-> TRUE, is_fresh |-> e.is_fresh,
          expires_at |-> e.expires_at, before |-> e.search_results]

Outcome(h, called, raised, ret) ==
    [seen |-> Seen(h), called |-> called, raised |-> raised, ret |-> ret]

\* Lines 415-420: the lookup answers with a non-empty list: no upstream call.
SearchHit(h) ==
    LET g == get_fresh_search_results(cache, h, now) IN
    /\ Truthy(g.ret)
    /\ cache' = g.cache
    /\ last' = Outcome(h, FALSE, FALSE, g.ret)
    /\ lastHit' = h
    /\ UNCHANGED <<now, inserted, evictedMax, schedVars, storeVars, moreVars>>

\* Lines 424-436, 450-454: upstream answers; put, evict, return.
SearchMissOk(h, r) ==
    LET g == get_fresh_search_results(cache, h, now) IN
    /\ ~Truthy(g.ret)
    /\ LET put == save_search_history(g.cache, h, r, now, CacheDuration) IN
       \E c2 \in cleanup_expired_searches(put, now, MaxEntries) :
           /\ cache' = c2
           /\ evictedMax' = MaxOf({evictedMax} \cup
                   {e.created_at : e \in MarkExpired(put, now) \ c2})
    /\ last' = Outcome(h, TRUE, FALSE, r)
    /\ inserted' = inserted \cup {h}
    /\ UNCHANGED <<now, lastHit, schedVars, storeVars, moreVars>>

\* Lines 438-448: upstream raises; an empty snapshot is put, the error re-raised.
SearchMissFail(h) ==
    LET g == get_fresh_search_results(cache, h, now) IN
    /\ ~Truthy(g.ret)
    /\ cache' = save_search_history(g.cache, h, <<>>, now, CacheDuration)
    /\ last' = Outcome(h, TRUE, TRUE, <<>>)
    /\ inserted' = inserted \cup {h}
    /\ UNCHANGED <<now, evictedMax, lastHit, schedVars, storeVars, moreVars>>

\* The clock.
Tick ==
    /\ now < MaxTime
    /\ now' = now + 1
    /\ UNCHANGED <<cache, last, inserted, evictedMax, lastHit, schedVars, storeVars, moreVars>>

NoSearch ==
    [seen |-> [fp |-> 0, t |-> 0, entry |-> FALSE, is_fresh |-> FALSE,
               expires_at |-> 0, before |-> <<>>],
     called |-> FALSE, raised |-> FALSE, ret |-> <<>>]

InitCache ==
    /\ now = 0
    /\ cache = {}
    /\ last = NoSearch
    /\ inserted = {}
    /\ evictedMax = -1
    /\ lastHit = 0

NextCache ==
    \/ \E h \in Fps : SearchHit(h)
    \/ \E h \in Fps : \E r \in Snapshots : SearchMissOk(h, r)
    \/ \E h \in Fps : SearchMissFail(h)
    \/ Tick

(***************************************************************************)
(* HotelRefreshService.refresh_hotels_for_city, as its callers see it.      *)
(***************************************************************************)

\* Lines 148-163: the place_id f-string reads the name `city`, which is bound
\* nowhere in the function or the module (the parameter is city_name), so
\* building the search request raises NameError on every call.
BuildSearchRequest ==
    [raised |-> TRUE, error |-> "name 'city' is not defined"]

\* Lines 199-208: the except branch of refresh_hotels_for_city.
RefreshError(msg) ==
    [status |-> "error", hotels_processed |-> 0, hotels_updated |-> 0,
     hotels_created |-> 0, errors |-> <<msg>>]

\* Lines 165-197: the results the fetch and the batch loop could report.
RefreshCompleted ==
    {[status |-> "completed", hotels_processed |-> p, hotels_updated |-> 0,
      hotels_created |-> p, errors |-> <<>>] : p \in 0..1}

\* refresh_hotels_for_city: the dictionaries it can return (it never raises).
RefreshResults ==
    IF BuildSearchRequest.raised
    THEN {RefreshError(BuildSearchRequest.error)}
    ELSE RefreshCompleted

(***************************************************************************)
(* HotelSchedulerService                                                   *)
(***************************************************************************)
Cities == 1..NumCities

NoStats ==
    [written |-> FALSE, status |-> "none", hotels_processed |-> 0,
     hotels_updated |-> 0, hotels_created |-> 0, errors |-> <<>>,
     error_message |-> ""]

\* Lines 147-158: the entry written from the refresh result.
StatsOfResult(r) ==
    [written |-> TRUE, status |-> r.status,
     hotels_processed |-> r.hotels_processed,
     hotels_updated |-> r.hotels_updated,
     hotels_created |-> r.hotels_created, errors |-> r.errors,
     error_message |-> ""]

\* Lines 172-179: the entry written by the except branch of the job.
StatsOfException(msg) ==
    [written |-> TRUE, status |-> "error", hotels_processed |-> 0,
     hotels_updated |-> 0, hotels_created |-> 0, errors |-> <<>>,
     error_message |-> msg]

NumRunning == Cardinality({c \in Cities : inst[c] = "running"})

\* (mutant: one worker of the pool is never used)
WorkerFree_OneLess == NumRunning < MaxWorkers - 1

\* ThreadPoolExecutor(max_workers=...): a worker thread is idle.
WorkerFree == NumRunning < MaxWorkers

NoTick == [city |-> 0, inflight |-> FALSE, running |-> FALSE, busy |-> 0,
           outcome |-> "none"]

\* start_scheduler: build the scheduler, add one job per configured city, start.
start_scheduler ==
    /\ ~schedRunning /\ stopPc = "no"
    /\ schedRunning' = TRUE
    /\ jobs' = Cities
    /\ UNCHANGED <<inst, poolQueue, manual, job_stats, lastFault, lastTick,
                   cacheVars, storeVars, moreVars>>

\* The interval trigger of job c fires while an instance of c is submitted or
\* running: max_instances=1 makes the executor refuse the run (it is skipped).
TimerTickSkipped(c) ==
    /\ schedRunning /\ c \in jobs
    /\ inst[c] # "none"
    /\ lastTick' = [city |-> c, inflight |-> TRUE,
                    running |-> (inst[c] = "running"), busy |-> NumRunning,
                    outcome |-> "skipped"]
    /\ UNCHANGED <<schedRunning, jobs, inst, poolQueue, manual, job_stats,
                   lastFault, cacheVars, storeVars, moreVars>>

\* The interval trigger of job c fires and the run is submitted to the pool:
\* an idle worker starts it at once, otherwise it waits in the work queue.
TimerTickSubmit(c) ==
    /\ schedRunning /\ c \in jobs
    /\ inst[c] = "none"
    /\ LET to == IF WorkerFree THEN "running" ELSE "queued" IN
       /\ inst' = [inst EXCEPT ![c] = to]
       /\ poolQueue' = IF to = "queued" THEN Append(poolQueue, c) ELSE poolQueue
       /\ lastTick' = [city |-> c, inflight |-> FALSE, running |-> FALSE,
                       busy |-> NumRunning, outcome |-> to]
    /\ UNCHANGED <<schedRunning, jobs, manual, job_stats, lastFault, cacheVars, storeVars, moreVars>>

\* The worker that finished a run takes work from the queue: the first k
\* queued runs are past their misfire grace time and are dropped unrun, the
\* next one (if any) starts.
WorkerTakesNext(i, k) ==
    LET dropped == {poolQueue[j] : j \in 1..k}
        starts == IF k < Len(poolQueue) THEN {poolQueue[k + 1]} ELSE {}
    IN  /\ inst' = [c \in Cities |->
                      IF c = i \/ c \in dropped THEN "none"
                      ELSE IF c \in starts THEN "running" ELSE inst[c]]
        /\ poolQueue' = SubSeq(poolQueue, k + 2, Len(poolQueue))

\* _refresh_hotels_for_city runs to its end on a pool worker: the refresh
\* result is written to job_stats[job_id].
JobFinish(c) ==
    /\ inst[c] = "running"
    /\ \E r \in RefreshResults :
           job_stats' = [job_stats EXCEPT ![c] = StatsOfResult(r)]
    /\ lastFault' = [lastFault EXCEPT ![c] = "none"]
    /\ \E k \in 0..Len(poolQueue) : WorkerTakesNext(c, k)
    /\ UNCHANGED <<schedRunning, jobs, manual, lastTick, cacheVars, storeVars, moreVars>>

\* _refresh_hotels_for_city: next(get_db()) or db.close() raises; the outer
\* except branch writes the error entry.
JobFinishException(c) ==
    /\ inst[c] = "running"
    /\ job_stats' = [job_stats EXCEPT ![c] = StatsOfException("db")]
    /\ lastFault' = [lastFault EXCEPT ![c] = "db"]
    /\ \E k \in 0..Len(poolQueue) : WorkerTakesNext(c, k)
    /\ UNCHANGED <<schedRunning, jobs, manual, lastTick, cacheVars, storeVars, moreVars>>

\* trigger_manual_refresh (the definition at lines 331-359, which replaces the
\* one at 223-249): the request thread starts refresh_hotels_for_city itself.
ManualTrigger(c) ==
    /\ manual = 0 /\ stopPc = "no"
    /\ manual' = c
    /\ UNCHANGED <<schedRunning, jobs, inst, poolQueue, job_stats, lastFault,
                   lastTick, cacheVars, storeVars, moreVars>>

\* trigger_manual_refresh returns {'status': 'success', 'result': ...}.
ManualFinish ==
    /\ manual # 0
    /\ manual' = 0
    /\ UNCHANGED <<schedRunning, jobs, inst, poolQueue, job_stats, lastFault,
                   lastTick, cacheVars, storeVars, moreVars>>

\* (mutant: shutdown(wait=False), nothing is waited for)
Drained_NoWait == TRUE

\* shutdown(wait=True) has nothing left to wait for: no run of the pool is
\* running or queued.
Drained == \A c \in Cities : inst[c] = "none"

\* stop_scheduler, called by lifespan at shutdown on the event loop (which a
\* manual refresh in flight occupies): a scheduler that is not running is left
\* alone; else the scheduler state becomes stopped and shutdown waits for the
\* executor.
stop_scheduler ==
    /\ stopPc = "no" /\ manual = 0
    /\ stopPc' = IF schedRunning THEN "waiting" ELSE "noop"
    /\ schedRunning' = FALSE
    /\ UNCHANGED <<jobs, inst, poolQueue, manual, job_stats, lastFault, lastTick,
                   drainTicks, notStop>>

\* Time passes while shutdown(wait=True) waits for the pool.
StopWaits ==
    /\ stopPc = "waiting" /\ ~Drained /\ drainTicks < MaxDrain
    /\ drainTicks' = drainTicks + 1
    /\ UNCHANGED <<stopPc, schedVars, notStop>>

\* shutdown(wait=True) returns: the pool is drained, the job store is shut down
\* (MemoryJobStore drops its jobs), stop_scheduler returns.
StopReturn ==
    /\ stopPc = "waiting" /\ Drained
    /\ stopPc' = "returned"
    /\ jobs' = {}
    /\ UNCHANGED <<schedRunning, inst, poolQueue, manual, job_stats, lastFault,
                   lastTick, drainTicks, notStop>>

\* get_scheduler_health
get_scheduler_health ==
    IF ~schedRunning /\ stopPc \in {"no", "noop"}
    THEN [status |-> "not_initialized", total_jobs |-> -1, job_stats |-> {}]
    ELSE [status |-> IF schedRunning THEN "running" ELSE "stopped",
          total_jobs |-> Cardinality(jobs),
          job_stats |-> {c \in Cities : job_stats[c].written}]

InitSched ==
    /\ schedRunning = FALSE
    /\ jobs = {}
    /\ inst = [c \in Cities |-> "none"]
    /\ poolQueue = <<>>
    /\ manual = 0
    /\ job_stats = [c \in Cities |-> NoStats]
    /\ lastFault = [c \in Cities |-> "none"]
    /\ lastTick = NoTick

NextSched ==
    \/ start_scheduler
    \/ \E c \in Cities : TimerTickSkipped(c)
    \/ \E c \in Cities : TimerTickSubmit(c)
    \/ \E c \in Cities : JobFinish(c)
    \/ \E c \in Cities : JobFinishException(c)
    \/ \E c \in Cities : ManualTrigger(c)
    \/ ManualFinish
    \/ stop_scheduler
    \/ StopWaits
    \/ StopReturn

(***************************************************************************)
(* Inventory store: hotels with their amenity and image sets, written by   *)
(* the refresh path (_process_hotel_batch) and the live path               *)
(* (save_hotel_details), each through its own SQLAlchemy session.          *)
(***************************************************************************)

Writers == {1, 2}
Ids == 1..NumIds
Variants == {"a", "b", "noname"}
NULL == "NULL"

\* api_hotel_id of a row written without one (SQL NULL: equal to no id).
NoApi == 0

\* One hotel of an upstream answer: its "id" and the rest of its fields.
HotelData == [id : Ids, v : Variants]

\* hotel_data.get("hotelName")
NameOf(v) == CASE v = "a" -> "A" [] v = "b" -> "B" [] OTHER -> NULL

\* hotel_data.get("facilities", [])
FacilitiesOf(v) ==
    CASE v = "a" -> <<"Free WiFi">> [] v = "b" -> <<"Pool", "Bar">> [] OTHER -> <<>>

\* hotel_data.get("heroImage")
HeroImageOf(v) == CASE v = "a" -> "img_a" [] v = "noname" -> "img_n" [] OTHER -> NULL

\* _categorize_amenity on the facility names above.
Categorize(name) ==
    CASE name = "Free WiFi" -> "technology"
      [] name = "Pool" -> "recreation"
      [] name = "Bar" -> "dining"
      [] OTHER -> "general"

\* (mutant: the mapped record carries no id, the table assigns one)
MappedId_None(h) == 0

\* hotel_mapped["id"]: the upstream id is the primary key of the record.
MappedId(h) == h.id

\* The HotelAmenity rows built for hotel row hid, as a bag.
AmenityRows(hid, v, typed) ==
    LET f == FacilitiesOf(v)
        row(i) == [hid |-> hid, name |-> f[i],
                   type |-> IF typed THEN Categorize(f[i]) ELSE "general"]
    IN  SetToBag({row(i) : i \in 1..Len(f)})

\* The HotelImage rows built for hotel row hid, as a bag.
ImageRows(hid, v) ==
    IF HeroImageOf(v) = NULL THEN EmptyBag
    ELSE SetToBag({[hid |-> hid, image |-> HeroImageOf(v)]})

EmptyStore == [hotels |-> {}, am |-> EmptyBag, im |-> EmptyBag]

\* A store that already holds hotel 1 (written by an earlier refresh).
PrepopStore ==
    [hotels |-> {[id |-> 1, api |-> NoApi, name |-> "B"]},
     am |-> AmenityRows(1, "b", TRUE), im |-> ImageRows(1, "b")]

\* db.query(Hotel).filter(Hotel.id == i)
RowsById(st, i) == {r \in st.hotels : r.id = i}

\* db.query(Hotel).filter(Hotel.api_hotel_id == a)
RowsByApi(st, a) == {r \in st.hotels : r.api = a}

\* Rows of a child table that do not belong to the hotels in D.
Without(b, D) == [e \in {x \in DOMAIN b : x.hid \notin D} |-> b[e]]

\* The record of hotel i and its amenity and image sets.
HotelState(st, i) ==
    [h |-> RowsById(st, i),
     am |-> [e \in {x \in DOMAIN st.am : x.hid = i} |-> st.am[e]],
     im |-> [e \in {x \in DOMAIN st.im : x.hid = i} |-> st.im[e]]]

\* Hotel.id is an autoincrement primary key.
NextId(st) == MaxOf({0} \cup {r.id : r \in st.hotels}) + 1

\* SessionLocal(): autocommit=False, autoflush=False.  upd: attribute changes
\* of loaded rows; ins: hotel rows inserted by flush; delAm/delIm: DELETE
\* statements executed in the open transaction; addAm/addIm: added objects.
FreshSession ==
    [active |-> TRUE, upd |-> {}, ins |-> {}, delAm |-> {}, delIm |-> {},
     addAm |-> EmptyBag, addIm |-> EmptyBag]

\* A flush raised: the transaction is rolled back, pending state is dropped and
\* the session refuses work until rollback() is called.
Deactivated == [FreshSession EXCEPT !.active = FALSE]

\* db.commit() that succeeds: flush, then COMMIT of the open transaction.
Apply(st, s) ==
    LET named(r) ==
            IF \E u \in s.upd : u[1] = r.id
            THEN [r EXCEPT !.name = (CHOOSE u \in s.upd : u[1] = r.id)[2]]
            ELSE r
    IN  [hotels |-> {named(r) : r \in st.hotels} \cup s.ins,
         am |-> Without(st.am, s.delAm) (+) s.addAm,
         im |-> Without(st.im, s.delIm) (+) s.addIm]

\* setattr(existing_hotel, "name", value) when value is not None.
SetName(s, i, name) ==
    IF name = NULL THEN s
    ELSE [s EXCEPT !.upd = {u \in @ : u[1] # i} \cup {<<i, name>>}]

\* The INSERT of a hotel row violates the primary key or NOT NULL of name.
InsertFails(st, row) == row.name = NULL \/ RowsById(st, row.id) # {}

ZeroStats == [processed |-> 0, updated |-> 0, created |-> 0, errors |-> 0]
NoCur == [hid |-> 0, pre |-> HotelState(EmptyStore, 0)]
NoRefresh == [status |-> "none", hotels_processed |-> 0, hotels_updated |-> 0,
              hotels_created |-> 0, errors |-> <<>>]

Hotel(w) == batch[w][idx[w]]

\* _process_hotel_batch, except branch: logger.error, processed += 1,
\* errors += 1; the session is left as the failed statement left it.
RecordError(w, s) ==
    /\ sess' = [sess EXCEPT ![w] = s]
    /\ bstats' = [bstats EXCEPT ![w].processed = @ + 1, ![w].errors = @ + 1]
    /\ idx' = [idx EXCEPT ![w] = @ + 1]
    /\ wpc' = [wpc EXCEPT ![w] = "begin"]
    /\ failedPre' = {f \in failedPre : f.id # MappedId(Hotel(w))}
                        \cup {[id |-> MappedId(Hotel(w)), pre |-> cur[w].pre]}

\* _process_hotel_batch, after _process_single_hotel returned its stats.
RecordSuccess(w, field) ==
    /\ bstats' = [bstats EXCEPT ![w].processed = @ + 1, ![w][field] = @ + 1]
    /\ idx' = [idx EXCEPT ![w] = @ + 1]
    /\ wpc' = [wpc EXCEPT ![w] = "begin"]
    /\ failedPre' = {f \in failedPre : f.id # cur[w].hid}

\* _process_hotel_batch is entered with the upstream answer and a new session.
BatchStart ==
    /\ wpc[1] = "idle" /\ run < 2
    /\ run' = run + 1
    /\ batch' = [batch EXCEPT ![1] = upstream]
    /\ idx' = [idx EXCEPT ![1] = 1]
    /\ bstats' = [bstats EXCEPT ![1] = ZeroStats]
    /\ sess' = [sess EXCEPT ![1] = FreshSession]
    /\ wpc' = [wpc EXCEPT ![1] = "begin"]
    /\ failedPre' = {}
    /\ UNCHANGED <<store, wkind, cur, upstream, prepop, count1, refresh_stats,
                   faults, cacheVars, schedVars, moreVars>>

\* _process_single_hotel: map the upstream fields, look the hotel up by id and
\* either change the loaded row (update) or build a new one (create).
Begin(w) ==
    /\ wkind[w] = "refresh" /\ wpc[w] = "begin" /\ idx[w] <= Len(batch[w])
    /\ LET h == Hotel(w)
           c == [hid |-> MappedId(h), pre |-> HotelState(store, MappedId(h))]
       IN  /\ cur' = [cur EXCEPT ![w] = c]
           /\ IF ~sess[w].active
              THEN \* PendingRollbackError on the query
                   /\ bstats' = [bstats EXCEPT ![w].processed = @ + 1,
                                               ![w].errors = @ + 1]
                   /\ idx' = [idx EXCEPT ![w] = @ + 1]
                   /\ failedPre' = {f \in failedPre : f.id # c.hid}
                                       \cup {[id |-> c.hid, pre |-> c.pre]}
                   /\ UNCHANGED <<sess, wpc>>
              ELSE IF RowsById(store, MappedId(h)) # {}
              THEN /\ sess' = [sess EXCEPT ![w] = SetName(@, MappedId(h), NameOf(h.v))]
                   /\ wpc' = [wpc EXCEPT ![w] = "delAm"]
                   /\ UNCHANGED <<bstats, idx, failedPre>>
              ELSE /\ wpc' = [wpc EXCEPT ![w] = "flush"]
                   /\ UNCHANGED <<sess, bstats, idx, failedPre>>
    /\ UNCHANGED <<store, wkind, batch, upstream, prepop, run, count1,
                   refresh_stats, faults, cacheVars, schedVars, moreVars>>

\* Update path: DELETE the hotel's amenities, add the new ones.
DelAm(w) ==
    /\ wpc[w] = "delAm"
    /\ sess' = [sess EXCEPT ![w].delAm = @ \cup {cur[w].hid},
                            ![w].addAm = @ (+) AmenityRows(cur[w].hid, Hotel(w).v, TRUE)]
    /\ wpc' = [wpc EXCEPT ![w] = "delIm"]
    /\ UNCHANGED <<store, wkind, batch, idx, cur, bstats, upstream, prepop, run,
                   count1, refresh_stats, faults, failedPre, cacheVars, schedVars, moreVars>>

\* Update path: DELETE the hotel's images, add the new one.
DelIm(w) ==
    /\ wpc[w] = "delIm"
    /\ sess' = [sess EXCEPT ![w].delIm = @ \cup {cur[w].hid},
                            ![w].addIm = @ (+) ImageRows(cur[w].hid, Hotel(w).v)]
    /\ wpc' = [wpc EXCEPT ![w] = "commit"]
    /\ UNCHANGED <<store, wkind, batch, idx, cur, bstats, upstream, prepop, run,
                   count1, refresh_stats, faults, failedPre, cacheVars, schedVars, moreVars>>

\* Create path: db.add(hotel); db.flush(); then add amenities and image with
\* the id of the flushed row.
Flush(w) ==
    /\ wpc[w] = "flush"
    /\ LET h == Hotel(w)
           hid == IF MappedId(h) = 0 THEN NextId(store) ELSE MappedId(h)
           row == [id |-> hid, api |-> NoApi, name |-> NameOf(h.v)]
       IN  IF InsertFails(store, row)
           THEN /\ RecordError(w, Deactivated)
                /\ UNCHANGED cur
           ELSE /\ sess' = [sess EXCEPT ![w].ins = @ \cup {row},
                                 ![w].addAm = @ (+) AmenityRows(hid, h.v, TRUE),
                                 ![w].addIm = @ (+) ImageRows(hid, h.v)]
                /\ cur' = [cur EXCEPT ![w].hid = hid]
                /\ wpc' = [wpc EXCEPT ![w] = "commit"]
                /\ UNCHANGED <<bstats, idx, failedPre>>
    /\ UNCHANGED <<store, wkind, batch, upstream, prepop, run, count1,
                   refresh_stats, faults, cacheVars, schedVars, moreVars>>

\* db.commit() of either path; a row inserted meanwhile by another writer
\* makes the INSERT of this transaction fail.
Commit(w) ==
    /\ wpc[w] = "commit"
    /\ IF \E r \in sess[w].ins : RowsById(store, r.id) # {}
       THEN /\ RecordError(w, Deactivated)
            /\ UNCHANGED store
       ELSE /\ store' = Apply(store, sess[w])
            /\ sess' = [sess EXCEPT ![w] = FreshSession]
            /\ RecordSuccess(w, IF sess[w].ins # {} THEN "created" ELSE "updated")
    /\ UNCHANGED <<wkind, batch, cur, upstream, prepop, run, count1,
                   refresh_stats, faults, cacheVars, schedVars, moreVars>>

\* The batch is through; refresh_hotels_for_city closes the session.
BatchReturn(w) ==
    /\ wkind[w] = "refresh" /\ wpc[w] = "begin" /\ idx[w] > Len(batch[w])
    /\ wpc' = [wpc EXCEPT ![w] = "idle"]
    /\ sess' = [sess EXCEPT ![w] = FreshSession]
    /\ count1' = IF w = 1 /\ run = 1 THEN Cardinality(store.hotels) ELSE count1
    /\ UNCHANGED <<store, wkind, batch, idx, cur, bstats, upstream, prepop, run,
                   refresh_stats, faults, failedPre, cacheVars, schedVars, moreVars>>

\* refresh_hotels_for_city as a whole, for the partition whose upstream answer
\* is `upstream`: the request is built before the Inventory Source is called.
refresh_hotels_for_city ==
    /\ wpc[1] = "idle" /\ run = 0 /\ refresh_stats.status = "none"
    /\ BuildSearchRequest.raised
    /\ refresh_stats' = [status |-> "error", hotels_processed |-> 0,
                         hotels_updated |-> 0, hotels_created |-> 0,
                         errors |-> <<BuildSearchRequest.error>>]
    /\ UNCHANGED <<store, sess, wkind, wpc, batch, idx, cur, bstats, upstream,
                   prepop, run, count1, faults, failedPre, cacheVars, schedVars, moreVars>>

\* The DELETE of the amenities raises (lock wait timeout, lost connection):
\* a statement error outside a flush leaves the session as it is.
DelAmFault(w) ==
    /\ wpc[w] = "delAm" /\ faults < MaxFaults
    /\ faults' = faults + 1
    /\ RecordError(w, sess[w])
    /\ UNCHANGED <<store, wkind, batch, cur, upstream, prepop, run, count1,
                   refresh_stats, cacheVars, schedVars, moreVars>>

\* The DELETE of the images raises, after the amenities were replaced.
DelImFault(w) ==
    /\ wpc[w] = "delIm" /\ faults < MaxFaults
    /\ faults' = faults + 1
    /\ RecordError(w, sess[w])
    /\ UNCHANGED <<store, wkind, batch, cur, upstream, prepop, run, count1,
                   refresh_stats, cacheVars, schedVars, moreVars>>

\* db.commit() raises in its flush: the transaction is rolled back.
CommitFault(w) ==
    /\ wpc[w] = "commit" /\ faults < MaxFaults
    /\ faults' = faults + 1
    /\ RecordError(w, Deactivated)
    /\ UNCHANGED <<store, wkind, batch, cur, upstream, prepop, run, count1,
                   refresh_stats, cacheVars, schedVars, moreVars>>

\* save_hotel_details, update of the row found: attributes, amenity and image
\* sets are replaced and committed.
LiveUpdated(st, r, h) ==
    [hotels |-> (st.hotels \ {r}) \cup
                    {IF NameOf(h.v) = NULL THEN r ELSE [r EXCEPT !.name = NameOf(h.v)]},
     am |-> Without(st.am, {r.id}) (+) AmenityRows(r.id, h.v, FALSE),
     im |-> Without(st.im, {r.id}) (+) ImageRows(r.id, h.v)]

\* save_hotel_details raised to its caller / returned.
LiveEnd(w, field) ==
    /\ bstats' = [bstats EXCEPT ![w].processed = @ + 1, ![w][field] = @ + 1]
    /\ wpc' = [wpc EXCEPT ![w] = "idle"]

\* save_hotel_details: look the hotel up by api_hotel_id; update it if found.
LiveBegin(w) ==
    /\ wkind[w] = "live" /\ wpc[w] = "begin" /\ idx[w] <= Len(batch[w])
    /\ LET h == Hotel(w)
           found == RowsByApi(store, h.id)
       IN  IF found # {}
           THEN /\ store' = LiveUpdated(store, CHOOSE r \in found : TRUE, h)
                /\ LiveEnd(w, "updated")
           ELSE /\ wpc' = [wpc EXCEPT ![w] = "lflush"]
                /\ UNCHANGED <<store, bstats>>
    /\ UNCHANGED <<sess, wkind, batch, idx, cur, upstream, prepop, run, count1,
                   refresh_stats, faults, failedPre, cacheVars, schedVars, moreVars>>

\* except IntegrityError: db.rollback(); on a duplicate PRIMARY key read the
\* hotel again by api_hotel_id and update it, else re-raise.
LiveOnIntegrityError(w) ==
    LET h == Hotel(w)
        found == RowsByApi(store, h.id)
    IN  /\ sess' = [sess EXCEPT ![w] = FreshSession]
        /\ IF h.id \in {r.id : r \in store.hotels} /\ found # {}
           THEN /\ store' = LiveUpdated(store, CHOOSE r \in found : TRUE, h)
                /\ LiveEnd(w, "updated")
           ELSE /\ UNCHANGED store
                /\ LiveEnd(w, "errors")

\* save_hotel_details, create: db.add(hotel); db.flush(); bulk_save_objects of
\* amenities and image.
LiveFlush(w) ==
    /\ wpc[w] = "lflush"
    /\ LET h == Hotel(w)
           row == [id |-> h.id, api |-> h.id, name |-> NameOf(h.v)]
       IN  IF InsertFails(store, row)
           THEN LiveOnIntegrityError(w)
           ELSE /\ sess' = [sess EXCEPT ![w].ins = @ \cup {row},
                                 ![w].addAm = @ (+) AmenityRows(h.id, h.v, FALSE),
                                 ![w].addIm = @ (+) ImageRows(h.id, h.v)]
                /\ wpc' = [wpc EXCEPT ![w] = "lcommit"]
                /\ UNCHANGED <<store, bstats>>
    /\ UNCHANGED <<wkind, batch, idx, cur, upstream, prepop, run, count1,
                   refresh_stats, faults, failedPre, cacheVars, schedVars, moreVars>>

\* save_hotel_details, create: db.commit().
LiveCommit(w) ==
    /\ wpc[w] = "lcommit"
    /\ IF \E r \in sess[w].ins : RowsById(store, r.id) # {}
       THEN LiveOnIntegrityError(w)
       ELSE /\ store' = Apply(store, sess[w])
            /\ sess' = [sess EXCEPT ![w] = FreshSession]
            /\ LiveEnd(w, "created")
    /\ UNCHANGED <<wkind, batch, idx, cur, upstream, prepop, run, count1,
                   refresh_stats, faults, failedPre, cacheVars, schedVars, moreVars>>

Batches == UNION {[1..n -> HotelData] : n \in 1..MaxBatch}

\* Store and writers at rest, no refresh started.
InitStore ==
    /\ store = EmptyStore
    /\ sess = [w \in Writers |-> FreshSession]
    /\ wkind = [w \in Writers |-> "refresh"]
    /\ wpc = [w \in Writers |-> "idle"]
    /\ batch = [w \in Writers |-> <<>>]
    /\ idx = [w \in Writers |-> 1]
    /\ cur = [w \in Writers |-> NoCur]
    /\ bstats = [w \in Writers |-> ZeroStats]
    /\ upstream = <<>>
    /\ prepop = FALSE
    /\ run = 0
    /\ count1 = -1
    /\ refresh_stats = NoRefresh
    /\ faults = 0
    /\ failedPre = {}

(***************************************************************************)
(* Search fingerprint: generate_search_hash.  A parameter set is a Python  *)
(* dict, a sequence of (key, value) pairs in insertion order with distinct *)
(* keys; a value is a scalar or a dict of scalars (filters).  Keys are     *)
(* numbered in their sort order.                                           *)
(***************************************************************************)

Keys == 1..NumKeys
NestedKeys == {1, 2}
Scalars == {[t |-> "n", n |-> v, d |-> <<>>] : v \in {1, 2}}

DistinctKeys(s) == \A i, j \in 1..Len(s) : s[i][1] = s[j][1] => i = j

\* All dicts with keys from K, values from V and at most n entries.
DictsOver(K, V, n) ==
    {s \in UNION {[1..m -> K \X V] : m \in 0..n} : DistinctKeys(s)}

NestedDicts == DictsOver(NestedKeys, Scalars, Cardinality(NestedKeys))

Values == Scalars \cup {[t |-> "d", n |-> 0, d |-> x] : x \in NestedDicts}

ParamSets == DictsOver(Keys, Values, NumKeys)

KeysOf(s) == {s[i][1] : i \in 1..Len(s)}

IndexOf(s, k) == (CHOOSE i \in 1..Len(s) : s[i][1] = k)

\* The pairs of s in ascending key order.
SortKeys(s) ==
    [i \in 1..Len(s) |->
        s[CHOOSE j \in 1..Len(s) :
            Cardinality({m \in 1..Len(s) : s[m][1] < s[j][1]}) = i - 1]]

\* (mutant: only the top-level keys are sorted)
DumpValue_Unsorted(v) == v

\* json.dumps(..., sort_keys=True) of a value: a nested dict is written with
\* its keys sorted, a scalar as it is.
DumpValue(v) == IF v.t = "d" THEN [v EXCEPT !.d = SortKeys(v.d)] ELSE v

\* json.dumps(search_params, sort_keys=True): the text, as its token sequence.
json_dumps(s) ==
    LET t == SortKeys(s) IN [i \in 1..Len(t) |-> <<t[i][1], DumpValue(t[i][2])>>]

\* hashlib.sha256(...).hexdigest(): 64 hex digits, taken as free of collisions
\* (the digest stands for the text it was computed from).
sha256(text) == [hexdigest |-> text, width |-> 64]

generate_search_hash(s) == sha256(json_dumps(s))

\* Two dicts are equal as Python dicts: same keys, same value under each key.
SameDict(a, b) ==
    /\ KeysOf(a) = KeysOf(b)
    /\ \A k \in KeysOf(a) :
        LET x == a[IndexOf(a, k)][2]
            y == b[IndexOf(b, k)][2]
        IN  /\ x.t = y.t /\ x.n = y.n
            /\ KeysOf(x.d) = KeysOf(y.d)
            /\ \A k2 \in KeysOf(x.d) : x.d[IndexOf(x.d, k2)][2] = y.d[IndexOf(y.d, k2)][2]

Reverse(s) == [i \in 1..Len(s) |-> s[Len(s) + 1 - i]]

Perms(n) == {f \in [1..n -> 1..n] : \A i, j \in 1..n : f[i] = f[j] => i = j}

\* The same request built with another insertion order: the top-level pairs
\* permuted by f, the nested dicts at the positions in F reversed.
HashReordered(f, F) ==
    /\ derived = "none" /\ f \in Perms(Len(params)) /\ F \subseteq 1..Len(params)
    /\ \A i \in F : params[i][2].t = "d"
    /\ LET flip(p) == <<p[1], [p[2] EXCEPT !.d = Reverse(@)]>>
           q == [i \in 1..Len(params) |->
                    IF f[i] \in F THEN flip(params[f[i]]) ELSE params[f[i]]]
       IN  /\ params2' = q
           /\ digests' = <<generate_search_hash(params), generate_search_hash(q)>>
    /\ derived' = "reordered"
    /\ UNCHANGED <<params, notHash>>

\* Another request: the value under one key replaced by a different value.
HashChangedValue(i, v) ==
    /\ derived = "none" /\ i \in 1..Len(params)
    /\ ~SameDict(<<params[i]>>, <<<<params[i][1], v>>>>)
    /\ LET q == [params EXCEPT ![i] = <<params[i][1], v>>]
       IN  /\ params2' = q
           /\ digests' = <<generate_search_hash(params), generate_search_hash(q)>>
    /\ derived' = "changed"
    /\ UNCHANGED <<params, notHash>>

\* Another request: one key left out (exclude_none drops an unset field).
HashDroppedKey(i) ==
    /\ derived = "none" /\ i \in 1..Len(params)
    /\ LET q == [j \in 1..(Len(params) - 1) |->
                    IF j < i THEN params[j] ELSE params[j + 1]]
       IN  /\ params2' = q
           /\ digests' = <<generate_search_hash(params), generate_search_hash(q)>>
    /\ derived' = "changed"
    /\ UNCHANGED <<params, notHash>>

NoDigests == <<sha256(<<>>), sha256(<<>>)>>

InitCacheFault ==
    /\ cfault = "none"
    /\ cfaultUp = FALSE

InitCall ==
    /\ rcity = <<>>
    /\ rstate = ""
    /\ geo = [kind |-> "none", lat |-> 0, long |-> 0]
    /\ rpc = "idle"
    /\ coords = <<0, 0>>
    /\ rcalls = 0
    /\ rstatus = "none"

InitStats ==
    /\ executions = [c \in Cities |-> 0]
    /\ rdPc = "idle"
    /\ countedFrom = [c \in Cities |-> 0]
    /\ detailsFrom = [c \in Cities |-> 0]

InitLife ==
    /\ schedulers = <<>>
    /\ current = 0
    /\ timers = <<>>
    /\ inflight = {}

InitLate == InitCacheFault /\ InitCall /\ InitStats /\ InitLife

InitMoreBase ==
    /\ params = <<>>
    /\ params2 = <<>>
    /\ derived = "none"
    /\ digests = NoDigests
    /\ stopPc = "no"
    /\ drainTicks = 0
    /\ config = <<>>
    /\ regIdx = 1
    /\ regStarted = FALSE
    /\ regRound = 0
    /\ pendingJobs = <<>>
    /\ jobstore = {}
    /\ config = <<>>
    /\ regIdx = 1
    /\ regStarted = FALSE
    /\ regRound = 0
    /\ pendingJobs = <<>>
    /\ jobstore = {}
    /\ spc = [s \in Searches |-> "idle"]
    /\ sfp = [s \in Searches |-> 1]
    /\ sret = [s \in Searches |-> <<>>]
    /\ sseen = [s \in Searches |-> FALSE]
    /\ sres = [s \in Searches |-> "none"]

InitMore == InitMoreBase /\ InitLate

\* Any parameter set, not hashed yet.
InitHash ==
    /\ InitCache /\ InitSched /\ InitStore
    /\ params \in ParamSets
    /\ params2 = <<>>
    /\ derived = "none"
    /\ digests = NoDigests
    /\ stopPc = "no"
    /\ drainTicks = 0
    /\ config = <<>>
    /\ regIdx = 1
    /\ regStarted = FALSE
    /\ regRound = 0
    /\ pendingJobs = <<>>
    /\ jobstore = {}
    /\ spc = [s \in Searches |-> "idle"]
    /\ sfp = [s \in Searches |-> 1]
    /\ sret = [s \in Searches |-> <<>>]
    /\ sseen = [s \in Searches |-> FALSE]
    /\ sres = [s \in Searches |-> "none"]
    /\ InitLate

NextHash ==
    \/ \E f \in Perms(Len(params)) : \E F \in SUBSET (1..Len(params)) :
           HashReordered(f, F)
    \/ \E i \in 1..Len(params) : \E v \in Values : HashChangedValue(i, v)
    \/ \E i \in 1..Len(params) : HashDroppedKey(i)

SpecHash == InitHash /\ [][NextHash]_vars

(***************************************************************************)
(* Registration: _add_city_jobs registers one interval job per configured  *)
(* city.  Strings are sequences of characters.                              *)
(***************************************************************************)

CityNames == {<<"a">>, <<"A">>, <<"a", " ", "b">>, <<"a", "_", "b">>}
StateNames == {<<>>, <<"b">>}
CountryNames == {<<"u">>}
Minutes == {1, 2}

ConfigEntries ==
    [name : CityNames, state : StateNames, country : CountryNames, minutes : Minutes]

Configs == UNION {[1..n -> ConfigEntries] : n \in 1..MaxConfig}

\* str.replace(" ", "_").lower(), character by character.
Normalize(str) ==
    [i \in 1..Len(str) |->
        IF str[i] = " " THEN "_" ELSE IF str[i] = "A" THEN "a" ELSE str[i]]

\* job_id = f"refresh_hotels_{city_name}_{state}_{country}".replace(" ", "_").lower()
JobId(e) ==
    Normalize(<<"refresh_hotels_">> \o e.name \o <<"_">> \o e.state
                  \o <<"_">> \o e.country)

JobOf(e) == [id |-> JobId(e), minutes |-> e.minutes]

\* (mutant: replace_existing=False, the job already stored is kept)
RealAddJob_Keep(js, job) ==
    IF \E j \in js : j.id = job.id THEN js ELSE js \cup {job}

\* _real_add_job with replace_existing=True: a job with the same id is
\* replaced by the new one.
RealAddJob(js, job) == {j \in js : j.id # job.id} \cup {job}

RECURSIVE RealAddAll(_, _)
\* scheduler.start(): the pending jobs are added to the store in order.
RealAddAll(js, pend) ==
    IF pend = <<>> THEN js
    ELSE RealAddAll(RealAddJob(js, Head(pend)), Tail(pend))

\* _add_city_jobs is entered (by start_scheduler, or again on the scheduler).
add_city_jobs ==
    /\ regRound < 2 /\ regIdx > Len(config) /\ (regRound = 1 => regStarted)
    /\ regRound' = regRound + 1
    /\ regIdx' = 1
    /\ UNCHANGED <<config, regStarted, pendingJobs, jobstore, notReg>>

\* scheduler.add_job(...) for the city at hand: before start the job is put
\* on the pending list, on a started scheduler it goes to the job store.
add_job ==
    /\ regRound > 0 /\ regIdx <= Len(config)
    /\ IF regStarted
       THEN /\ jobstore' = RealAddJob(jobstore, JobOf(config[regIdx]))
            /\ UNCHANGED pendingJobs
       ELSE /\ pendingJobs' = Append(pendingJobs, JobOf(config[regIdx]))
            /\ UNCHANGED jobstore
    /\ regIdx' = regIdx + 1
    /\ UNCHANGED <<config, regStarted, regRound, notReg>>

\* self.scheduler.start() at the end of start_scheduler.
scheduler_start ==
    /\ regRound = 1 /\ regIdx > Len(config) /\ ~regStarted
    /\ regStarted' = TRUE
    /\ jobstore' = RealAddAll(jobstore, pendingJobs)
    /\ pendingJobs' = <<>>
    /\ UNCHANGED <<config, regIdx, regRound, notReg>>

\* A configuration, nothing registered yet.
InitReg ==
    /\ InitCache /\ InitSched /\ InitStore
    /\ params = <<>> /\ params2 = <<>> /\ derived = "none" /\ digests = NoDigests
    /\ stopPc = "no" /\ drainTicks = 0
    /\ config \in Configs
    /\ regIdx = Len(config) + 1
    /\ regStarted = FALSE
    /\ regRound = 0
    /\ pendingJobs = <<>>
    /\ jobstore = {}
    /\ spc = [s \in Searches |-> "idle"]
    /\ sfp = [s \in Searches |-> 1]
    /\ sret = [s \in Searches |-> <<>>]
    /\ sseen = [s \in Searches |-> FALSE]
    /\ sres = [s \in Searches |-> "none"]
    /\ InitLate

NextReg ==
    \/ add_city_jobs
    \/ add_job
    \/ scheduler_start

SpecReg == InitReg /\ [][NextReg]_vars

(***************************************************************************)
(* Two cached searches at once, each on its own request thread and session *)
(***************************************************************************)

\* get_fresh_search_results, and the early return on a hit.
RaceLookup(s) ==
    /\ spc[s] = "lookup"
    /\ LET g == get_fresh_search_results(cache, sfp[s], now) IN
       /\ cache' = g.cache
       /\ IF Truthy(g.ret)
          THEN /\ spc' = [spc EXCEPT ![s] = "done"]
               /\ sres' = [sres EXCEPT ![s] = "ok"]
          ELSE /\ spc' = [spc EXCEPT ![s] = "call"]
               /\ UNCHANGED sres
    /\ UNCHANGED <<sfp, sret, sseen, notSearch>>

\* _search_hotels_direct returns the hotels of the Inventory Source.
RaceCall(s, r) ==
    /\ spc[s] = "call"
    /\ sret' = [sret EXCEPT ![s] = r]
    /\ spc' = [spc EXCEPT ![s] = "read"]
    /\ UNCHANGED <<cache, sfp, sseen, sres, notSearch>>

\* save_search_history: existing_search = get_search_history(db, search_hash)
RaceSaveRead(s) ==
    /\ spc[s] = "read"
    /\ sseen' = [sseen EXCEPT ![s] = (Matching(cache, sfp[s]) # {})]
    /\ spc' = [spc EXCEPT ![s] = "write"]
    /\ UNCHANGED <<cache, sfp, sret, sres, notSearch>>

\* save_search_history: db.commit() of the UPDATE or the INSERT.  An INSERT of
\* a search_hash that is now present violates its unique index, an UPDATE of a
\* row that is gone matches nothing; either error fails the flush, the except
\* branch of the search then finds its session unusable and the search raises.
RaceSaveWrite(s) ==
    /\ spc[s] = "write"
    /\ IF sseen[s] = (Matching(cache, sfp[s]) # {})
       THEN /\ cache' = save_search_history(cache, sfp[s], sret[s], now, CacheDuration)
            /\ spc' = [spc EXCEPT ![s] = "cleanup"]
            /\ UNCHANGED sres
       ELSE /\ spc' = [spc EXCEPT ![s] = "done"]
            /\ sres' = [sres EXCEPT ![s] = "failed"]
            /\ UNCHANGED cache
    /\ UNCHANGED <<sfp, sret, sseen, notSearch>>

\* cleanup_expired_searches, then the search returns its result.
RaceCleanup(s) ==
    /\ spc[s] = "cleanup"
    /\ cache' \in cleanup_expired_searches(cache, now, MaxEntries)
    /\ spc' = [spc EXCEPT ![s] = "done"]
    /\ sres' = [sres EXCEPT ![s] = "ok"]
    /\ UNCHANGED <<sfp, sret, sseen, notSearch>>

\* Two searches arrive together; the table is empty or holds an expired row
\* of fingerprint 1.
InitSearchRace ==
    /\ InitSched /\ InitStore
    /\ params = <<>> /\ params2 = <<>> /\ derived = "none" /\ digests = NoDigests
    /\ stopPc = "no" /\ drainTicks = 0
    /\ config = <<>> /\ regIdx = 1 /\ regStarted = FALSE /\ regRound = 0
    /\ pendingJobs = <<>> /\ jobstore = {}
    /\ now = MaxTime
    /\ cache \in {{}, {[search_hash |-> 1, search_results |-> <<1>>,
                        hotels_count |-> 1, created_at |-> 0,
                        expires_at |-> CacheDuration, is_fresh |-> TRUE]}}
    /\ last = NoSearch /\ inserted = {} /\ evictedMax = -1 /\ lastHit = 0
    /\ spc = [s \in Searches |-> "lookup"]
    /\ sfp \in [Searches -> Fps]
    /\ sret = [s \in Searches |-> <<>>]
    /\ sseen = [s \in Searches |-> FALSE]
    /\ sres = [s \in Searches |-> "none"]
    /\ InitLate

NextSearchRace ==
    \/ \E s \in Searches : RaceLookup(s)
    \/ \E s \in Searches : \E r \in Snapshots \ {<<>>} : RaceCall(s, r)
    \/ \E s \in Searches : RaceSaveRead(s)
    \/ \E s \in Searches : RaceSaveWrite(s)
    \/ \E s \in Searches : RaceCleanup(s)

SpecSearchRace == InitSearchRace /\ [][NextSearchRace]_vars

Init == InitCache /\ InitSched /\ InitStore /\ InitMore

\* One partition with any upstream answer, refreshed over a store that is
\* empty or already holds hotel 1.
InitBatch ==
    /\ InitCache /\ InitSched /\ InitMore
    /\ upstream \in Batches
    /\ prepop \in BOOLEAN
    /\ store = IF prepop THEN PrepopStore ELSE EmptyStore
    /\ sess = [w \in Writers |-> FreshSession]
    /\ wkind = [w \in Writers |-> "refresh"]
    /\ wpc = [w \in Writers |-> "idle"]
    /\ batch = [w \in Writers |-> <<>>]
    /\ idx = [w \in Writers |-> 1]
    /\ cur = [w \in Writers |-> NoCur]
    /\ bstats = [w \in Writers |-> ZeroStats]
    /\ run = 0
    /\ count1 = -1
    /\ refresh_stats = NoRefresh
    /\ faults = 0
    /\ failedPre = {}

\* Two writers, each upserting one named hotel with the same identifier that
\* is not stored yet; each is the refresh path or the live path.
InitRace ==
    /\ InitCache /\ InitSched /\ InitMore
    /\ upstream = <<>>
    /\ prepop = FALSE
    /\ store = EmptyStore
    /\ sess = [w \in Writers |-> FreshSession]
    /\ wkind \in [Writers -> {"refresh", "live"}]
    /\ wpc = [w \in Writers |-> "begin"]
    /\ batch \in [Writers -> {<<[id |-> 1, v |-> x]>> : x \in {"a", "b"}}]
    /\ idx = [w \in Writers |-> 1]
    /\ cur = [w \in Writers |-> NoCur]
    /\ bstats = [w \in Writers |-> ZeroStats]
    /\ run = 0
    /\ count1 = -1
    /\ refresh_stats = NoRefresh
    /\ faults = 0
    /\ failedPre = {}

NextBatch ==
    \/ refresh_hotels_for_city
    \/ BatchStart
    \/ Begin(1)
    \/ DelAm(1)
    \/ DelIm(1)
    \/ Flush(1)
    \/ Commit(1)
    \/ BatchReturn(1)

NextFault ==
    \/ BatchStart
    \/ Begin(1)
    \/ DelAm(1)
    \/ DelIm(1)
    \/ Flush(1)
    \/ Commit(1)
    \/ BatchReturn(1)
    \/ DelAmFault(1)
    \/ DelImFault(1)
    \/ CommitFault(1)

NextRace ==
    \/ \E w \in Writers : Begin(w)
    \/ \E w \in Writers : DelAm(w)
    \/ \E w \in Writers : DelIm(w)
    \/ \E w \in Writers : Flush(w)
    \/ \E w \in Writers : Commit(w)
    \/ \E w \in Writers : BatchReturn(w)
    \/ \E w \in Writers : LiveBegin(w)
    \/ \E w \in Writers : LiveFlush(w)
    \/ \E w \in Writers : LiveCommit(w)

SpecBatch == InitBatch /\ [][NextBatch]_vars

SpecFault == InitBatch /\ [][NextFault]_vars

SpecRace == InitRace /\ [][NextRace]_vars

SpecSched == Init /\ [][NextSched]_vars

SpecCache == Init /\ [][NextCache]_vars

Spec == SpecCache

(***************************************************************************)
(* Search freshness cache: claims                                          *)
(***************************************************************************)

\* C2 (as amended): for every fingerprint and instant the lookup yields the
\* cached snapshot only if now <= expires_at and is_fresh (at now = expires_at
\* the entry still counts as unexpired) and a miss otherwise; a lookup after
\* expires_at flips is_fresh of that row to false and changes nothing else; a
\* lookup of a fingerprint without a row creates none.
C2_LookupFreshUntilExpiry ==
    \A h \in Fps :
        LET g == get_fresh_search_results(cache, h, now) IN
        IF Matching(cache, h) = {}
        THEN g.ret = <<>> /\ g.cache = cache
        ELSE LET e == get_search_history(cache, h) IN
             /\ (now <= e.expires_at /\ e.is_fresh)
                    => (g.ret = e.search_results /\ g.cache = cache)
             /\ ~(now <= e.expires_at /\ e.is_fresh) => g.ret = <<>>
             /\ now > e.expires_at
                    => g.cache = (cache \ {e}) \cup {[e EXCEPT !.is_fresh = FALSE]}
             /\ Cardinality(g.cache) = Cardinality(cache)

\* C2 witness: a search was answered from the cache at the very instant
\* expires_at of its row.
C2_Witness ==
    /\ last.seen.entry /\ last.seen.is_fresh
    /\ last.seen.t = last.seen.expires_at
    /\ ~last.called /\ Truthy(last.ret)

\* C2 as stated: the lookup yields the cached snapshot only if
\* now < expires_at and is_fresh; now = expires_at is a miss.
C2_Original ==
    \A h \in Fps :
        Matching(cache, h) # {} =>
            LET e == get_search_history(cache, h)
                g == get_fresh_search_results(cache, h, now)
            IN  /\ Truthy(g.ret) => (now < e.expires_at /\ e.is_fresh)
                /\ now >= e.expires_at => get_search_history(g.cache, h).is_fresh = FALSE

\* C3 as stated: a request that finds a fresh, unexpired row for its
\* fingerprint returns exactly that row's snapshot (an empty one included) and
\* makes no upstream call; a request that finds no row, or a row past its
\* expiry or not fresh, calls upstream and, when the call succeeds, returns
\* what upstream answered.
C3_Original ==
    LET s == last.seen
        usable == s.entry /\ s.is_fresh /\ s.t < s.expires_at
        unusable == ~s.entry \/ ~s.is_fresh \/ s.t > s.expires_at
    IN  s.fp # 0 =>
          /\ usable => (~last.called /\ ~last.raised /\ last.ret = s.before)
          /\ unusable => last.called

\* C7 as stated: once more than max_entries distinct fingerprints have been
\* put (by searches whose upstream call succeeded or failed) the table holds
\* exactly max_entries rows, and no retained row is older than an evicted one.
C7_Original ==
    Cardinality(inserted) > MaxEntries =>
        /\ Cardinality(cache) = MaxEntries
        /\ \A e \in cache : e.created_at >= evictedMax
(***************************************************************************)
(* Tiered scheduler: claims                                                *)
(***************************************************************************)

\* C1 as stated: at most one refresh execution per partition is in flight at
\* any time, whether it was started by a timer tick or by a manual trigger.
C1_Original ==
    \A c \in Cities :
        (IF inst[c] = "running" THEN 1 ELSE 0) + (IF manual = c THEN 1 ELSE 0) <= 1

\* C8 as stated: whenever an execution writes job_stats, it writes the entry
\* of its own partition only, the scheduler keeps running, a failure of the
\* execution is recorded as status 'error' with its message, and an execution
\* in which nothing outside the refresh failed completes without error.
C8_Original ==
    [][\A c \in Cities :
          job_stats'[c] # job_stats[c] =>
              /\ inst[c] = "running"
              /\ \A o \in Cities \ {c} : job_stats'[o] = job_stats[o]
              /\ schedRunning' = schedRunning
              /\ lastFault'[c] # "none" =>
                     /\ job_stats'[c].status = "error"
                     /\ job_stats'[c].error_message = lastFault'[c]
              /\ lastFault'[c] = "none" => job_stats'[c].status # "error"
      ]_vars

\* C9 (as amended): a tick of a partition that has no instance submitted or
\* running starts its execution at once exactly when fewer than max_workers
\* executions are running, whatever the other partitions' executions are
\* doing; with all workers busy the run waits in the pool's queue, and no run
\* waits while a worker is idle.
C9_DispatchWhenWorkerFree ==
    /\ (lastTick.city # 0 /\ ~lastTick.inflight) =>
           /\ lastTick.busy < MaxWorkers => lastTick.outcome = "running"
           /\ lastTick.busy >= MaxWorkers => lastTick.outcome = "queued"
    /\ poolQueue # <<>> => NumRunning = MaxWorkers
    /\ \A c \in Cities : inst[c] = "queued" <=> (\E j \in 1..Len(poolQueue) : poolQueue[j] = c)

\* C9 witness: the tick of one partition started its execution while another
\* partition's execution was (and still is) running.
C9_Witness ==
    /\ lastTick.city # 0 /\ lastTick.outcome = "running" /\ lastTick.busy >= 1
    /\ inst[lastTick.city] = "running"
    /\ \E a \in Cities \ {lastTick.city} : inst[a] = "running"

\* C9 as stated: whenever a partition's tick is due and the partition is not
\* itself running, its execution starts, for any number of partitions relative
\* to the pool size.
C9_Original ==
    (lastTick.city # 0 /\ ~lastTick.running) => lastTick.outcome = "running"

(***************************************************************************)
(* Inventory store: claims                                                 *)
(***************************************************************************)

\* C4: no two hotel records share an id, and refreshing a partition a second
\* time with the same upstream data leaves the number of hotel records as it
\* was after the first refresh.
C4_UpsertIdempotent ==
    /\ \A r1, r2 \in store.hotels : r1.id = r2.id => r1 = r2
    /\ (run = 2 /\ wpc[1] = "idle") => Cardinality(store.hotels) = count1

\* C4 witness: the second refresh of the same data is through and has updated
\* two records that the first refresh created.
C4_Witness ==
    /\ run = 2 /\ wpc[1] = "idle" /\ ~prepop
    /\ count1 >= 2 /\ bstats[1].updated >= 2 /\ bstats[1].created = 0

\* C5 as stated: a hotel whose upsert failed has its record, amenity set and
\* image set exactly as before the attempt, also after later records of the
\* batch were committed on the same session.
C5_Original ==
    \A f \in failedPre : HotelState(store, f.id) = f.pre

\* C6 as stated: a refresh whose upstream answer has three new hotels of which
\* one has no name reports processed = 3, created = 2 and one error; in a
\* batch every record that fails is counted as one error and every other
\* record is upserted whatever its position.
C6_Original ==
    LET distinct == \A i, j \in 1..Len(upstream) :
                        upstream[i].id = upstream[j].id => i = j
        nameless == {i \in 1..Len(upstream) : upstream[i].v = "noname"}
        scenario == ~prepop /\ distinct /\ Len(upstream) = 3
                        /\ Cardinality(nameless) = 1
    IN  /\ (scenario /\ refresh_stats.status # "none")
                => /\ refresh_stats.hotels_processed = 3
                   /\ refresh_stats.hotels_created = 2
                   /\ Len(refresh_stats.errors) = 1
        /\ (~prepop /\ distinct /\ run = 1 /\ wpc[1] = "idle")
                => /\ bstats[1].processed = Len(upstream)
                   /\ bstats[1].errors = Cardinality(nameless)
                   /\ bstats[1].created = Len(upstream) - Cardinality(nameless)

\* C10 as stated: two writers that upsert concurrently a hotel with the same
\* identifier that is not stored yet leave exactly one record of it, and
\* neither upsert ends in an error.
C10_Original ==
    (\A w \in Writers : wpc[w] = "idle")
        => /\ Cardinality(RowsById(store, 1)) = 1
           /\ \A w \in Writers : bstats[w].errors = 0

\* C11 as stated: save_search_history leaves the row of the fingerprint with
\* created_at = now, expires_at = now + ttl and is_fresh = true, when it
\* inserts and when it replaces the snapshot of a cached fingerprint.
C11_Original ==
    \A h \in Fps : \A r \in Snapshots :
        LET c2 == save_search_history(cache, h, r, now, CacheDuration)
            e == get_search_history(c2, h)
        IN  /\ Cardinality(Matching(c2, h)) = 1
            /\ e.created_at = now
            /\ e.expires_at = now + CacheDuration
            /\ e.is_fresh

\* The sets of fingerprints that cleanup_expired_searches may delete from c.
DeletedBy(c, t, max_entries) ==
    {{e.search_hash : e \in c} \ {e.search_hash : e \in c2} :
        c2 \in cleanup_expired_searches(c, t, max_entries)}

\* C12: cleanup_expired_searches, run on the table as a search has put it,
\* marks every row with expires_at in the past as not fresh and changes no
\* other row; if the table holds more than max_entries rows it deletes exactly
\* count - max_entries of them, none created later than a row it keeps; a cache
\* lookup before it does not change which fingerprints are deleted.
C12_EvictOldestCreated ==
    /\ \A h \in Fps : \A r \in Snapshots :
        LET g == get_fresh_search_results(cache, h, now)
            put == save_search_history(g.cache, h, r, now, CacheDuration)
            n == Cardinality(put)
        IN  \A c2 \in cleanup_expired_searches(put, now, MaxEntries) :
                LET D == MarkExpired(put, now) \ c2 IN
                /\ c2 \subseteq MarkExpired(put, now)
                /\ \A e \in c2 : e.expires_at < now => ~e.is_fresh
                /\ Cardinality(D) = IF n > MaxEntries THEN n - MaxEntries ELSE 0
                /\ \A d \in D : \A k \in c2 : d.created_at <= k.created_at
    /\ \A h \in Fps :
        DeletedBy(get_fresh_search_results(cache, h, now).cache, now, MaxEntries)
            = DeletedBy(cache, now, MaxEntries)

\* C12 witness: the fingerprint that was last answered from the cache has been
\* deleted by the eviction of a later search for another fingerprint.
C12_Witness ==
    /\ lastHit # 0 /\ Matching(cache, lastHit) = {}
    /\ last.called /\ ~last.raised /\ last.seen.fp # lastHit
    /\ Cardinality(cache) = MaxEntries

\* C13: generate_search_hash returns a digest of fixed width; two parameter
\* sets get the same digest exactly if they have the same keys and values at
\* every nesting level, whatever the insertion order of their keys.
C13_HashOrderIndependent ==
    derived # "none" =>
        /\ digests[1] = generate_search_hash(params)
        /\ digests[1].width = digests[2].width
        /\ (digests[1] = digests[2]) <=> SameDict(params, params2)
        /\ derived = "reordered" => digests[1] = digests[2]
        /\ derived = "changed" => digests[1] # digests[2]

\* C13 witness: a parameter set with a nested dict was hashed again with its
\* top-level keys and its nested keys in another insertion order.
C13_Witness ==
    /\ derived = "reordered" /\ params2 # params
    /\ \E i \in 1..Len(params) :
        /\ params[i][2].t = "d" /\ Len(params[i][2].d) = 2
        /\ \E j \in 1..Len(params2) :
            /\ j # i /\ params2[j][1] = params[i][1]
            /\ params2[j][2] # params[i][2]

\* C14 as stated: when trigger_manual_refresh for a registered partition
\* completes, the partition's job_stats entry has been overwritten with this
\* run's outcome, as a scheduled execution with the same result writes it.
C14_Original ==
    [][(manual # 0 /\ manual' = 0 /\ manual \in jobs)
          => /\ job_stats'[manual].written
             /\ \E r \in RefreshResults : job_stats'[manual] = StatsOfResult(r)]_vars

C16_Original ==
    stopPc = "waiting" => drainTicks < MaxDrain

\* C18 as stated: get_scheduler_health reports a running flag equal to
\* "started and not stopped", a job count equal to the number of registered
\* partitions and a snapshot per Refresh Job; every key of job_stats is a
\* registered partition and a record exists as soon as a partition is
\* registered.
C18_Original ==
    LET h == get_scheduler_health IN
    /\ (h.status = "running") <=> schedRunning
    /\ h.status # "not_initialized" => h.total_jobs = Cardinality(jobs)
    /\ \A c \in Cities : job_stats[c].written => c \in jobs
    /\ \A c \in jobs : job_stats[c].written

\* The configured entries registered so far, in registration order.
Registered ==
    IF regRound = 2 THEN config \o SubSeq(config, 1, regIdx - 1) ELSE config

Identity(e) == <<e.name, e.state, e.country>>

\* _add_city_jobs has run through and the scheduler is started.
RegQuiet == regStarted /\ regIdx > Len(config)

\* C17 (as amended): once registration is through, the scheduler holds exactly
\* one job per distinct job id (the lower-cased join of name, region and
\* country with spaces turned into underscores), carrying the interval of the
\* most recent registration with that id; a second run of _add_city_jobs
\* changes nothing.
C17_OneJobPerJobId ==
    RegQuiet =>
        LET R == Registered IN
        /\ \A j1, j2 \in jobstore : j1.id = j2.id => j1 = j2
        /\ {j.id : j \in jobstore} = {JobId(R[i]) : i \in 1..Len(R)}
        /\ \A j \in jobstore :
            LET lastI == CHOOSE i \in 1..Len(R) :
                            /\ JobId(R[i]) = j.id
                            /\ \A k \in (i + 1)..Len(R) : JobId(R[k]) # j.id
            IN  j.minutes = R[lastI].minutes

\* C17 witness: a partition listed twice with different intervals was
\* registered, the scheduler started and _add_city_jobs run a second time.
C17_Witness ==
    /\ RegQuiet /\ regRound = 2
    /\ \E i, k \in 1..Len(config) :
        /\ i < k /\ Identity(config[i]) = Identity(config[k])
        /\ config[i].minutes # config[k].minutes
    /\ Cardinality(jobstore) < Len(config)

\* C17 as stated: the scheduler holds exactly one job per distinct partition
\* identity (name, region, country), with the interval of the most recent
\* registration of that partition.
C17_Original ==
    RegQuiet =>
        /\ Cardinality(jobstore)
              = Cardinality({Identity(config[i]) : i \in 1..Len(config)})
        /\ \A i \in 1..Len(config) :
            (\A k \in (i + 1)..Len(config) : Identity(config[k]) # Identity(config[i]))
                => \E j \in jobstore :
                       j.id = JobId(config[i]) /\ j.minutes = config[i].minutes

\* C19 as stated: refresh_hotels_for_city never raises and returns a result for
\* every outcome; when geocoding, the Inventory Source and the store all work
\* (as they do here), the fetch and the batch loop complete and the result has
\* status 'completed' with the aggregate counts.
C19_Original ==
    refresh_stats.status # "none"
        => /\ refresh_stats.status = "completed"
           /\ refresh_stats.hotels_processed = Len(upstream)
           /\ refresh_stats.errors = <<>>

\* C20 as stated: when two searches run concurrently, neither fails because
\* of the other, and if they have the same fingerprint exactly one row of it
\* exists afterwards.
C20_Original ==
    (\A s \in Searches : spc[s] = "done")
        => /\ \A s \in Searches : sres[s] = "ok"
           /\ \A h \in Fps : Cardinality(Matching(cache, h)) <= 1
           /\ sfp[1] = sfp[2] => Cardinality(Matching(cache, sfp[1])) = 1

\* ---------------------------------------------------------------------------
\* Cached search when a cache operation raises (hotel_service.py 403-454).
\* The lookup (line 415) and the eviction (line 452) are outside the try
\* block; the put (line 430) is inside it, so its error reaches the handler
\* of lines 438-448, which puts an empty snapshot and re-raises.
\* ---------------------------------------------------------------------------

CacheOps == {"lookup", "put", "cleanup"}

\* Line 415 raises: nothing catches it, the upstream call is never made.
SearchLookupFault(h) ==
    /\ cfault = "none"
    /\ last' = Outcome(h, FALSE, TRUE, <<>>)
    /\ cfault' = "lookup"
    /\ cfaultUp' = FALSE
    /\ UNCHANGED <<now, cache, inserted, evictedMax, lastHit, schedVars,
                   storeVars, hashVars, stopVars, regVars, searchVars, notCFault>>

\* Lines 426-448: upstream answers r, the put of line 430 raises; the handler
\* puts an empty snapshot (which raises again on a deactivated session, or is
\* stored when the session is still usable) and the search raises.
SearchPutFault(h, r) ==
    LET g == get_fresh_search_results(cache, h, now) IN
    /\ cfault = "none"
    /\ ~Truthy(g.ret)
    /\ cache' \in {g.cache,
                   save_search_history(g.cache, h, <<>>, now, CacheDuration)}
    /\ last' = Outcome(h, TRUE, TRUE, <<>>)
    /\ cfault' = "put"
    /\ cfaultUp' = TRUE
    /\ UNCHANGED <<now, inserted, evictedMax, lastHit, schedVars,
                   storeVars, hashVars, stopVars, regVars, searchVars, notCFault>>

\* Lines 450-452: upstream answers r, the put is stored, the eviction raises
\* before its single commit (hotel_repository.py 323): the search raises.
SearchCleanupFault(h, r) ==
    LET g == get_fresh_search_results(cache, h, now) IN
    /\ cfault = "none"
    /\ ~Truthy(g.ret)
    /\ cache' = save_search_history(g.cache, h, r, now, CacheDuration)
    /\ last' = Outcome(h, TRUE, TRUE, <<>>)
    /\ inserted' = inserted \cup {h}
    /\ cfault' = "cleanup"
    /\ cfaultUp' = TRUE
    /\ UNCHANGED <<now, evictedMax, lastHit, schedVars,
                   storeVars, hashVars, stopVars, regVars, searchVars, notCFault>>

\* Searches of one caller; the search whose cache operation raised is the
\* last one of the behaviour.
NextCacheFault ==
    \/ (cfault = "none" /\ NextCache)
    \/ \E h \in Fps : SearchLookupFault(h)
    \/ \E h \in Fps : \E r \in Snapshots : SearchPutFault(h, r)
    \/ \E h \in Fps : \E r \in Snapshots : SearchCleanupFault(h, r)

SpecCacheFault == Init /\ [][NextCacheFault]_vars

\* C21: a cache operation that raises during a search (lookup, put or
\* eviction) never fails the search: the upstream call is made and, when it
\* succeeded, the caller receives its result.
C21_Original ==
    cfault \in CacheOps =>
        /\ last.called
        /\ (cfaultUp => ~last.raised)

\* C22: when the upstream call of a cached search fails, the entry stored
\* before for that fingerprint keeps its snapshot and expiry, and no entry
\* marked fresh is created for the failed call.
C22_Original ==
    (last.called /\ last.raised) =>
        LET M == Matching(cache, last.seen.fp) IN
        IF last.seen.entry
        THEN \A e \in M : /\ e.search_results = last.seen.before
                          /\ e.expires_at = last.seen.expires_at
        ELSE \A e \in M : ~e.is_fresh

\* C23: after a successful refresh of a hotel that is already stored, its
\* stored amenity set and image set are exactly the sets mapped from the new
\* upstream record: no child row of an earlier refresh is left, none is
\* duplicated.
C23_Original ==
    [][\A w \in Writers :
          (wpc[w] = "commit" /\ bstats'[w].updated = bstats[w].updated + 1) =>
              LET hs == HotelState(store', cur[w].hid) IN
              /\ hs.am = AmenityRows(cur[w].hid, Hotel(w).v, TRUE)
              /\ hs.im = ImageRows(cur[w].hid, Hotel(w).v)]_vars

\* C24: with a single caller the cache holds at most one entry per
\* fingerprint, and a put for a fingerprint that has an entry (fresh,
\* expired or marked not fresh) updates that entry with the new snapshot and
\* the new expiry instead of adding a second one.
C24_OneEntryPerFingerprint ==
    /\ \A h \in Fps : Cardinality(Matching(cache, h)) <= 1
    /\ \A h \in Fps : \A r \in Snapshots :
        Matching(cache, h) # {} =>
            LET put == save_search_history(cache, h, r, now, CacheDuration) IN
            /\ Cardinality(put) = Cardinality(cache)
            /\ put \ Matching(put, h) = cache \ Matching(cache, h)
            /\ \A e \in Matching(put, h) :
                  /\ e.search_results = r
                  /\ e.hotels_count = Len(r)
                  /\ e.expires_at = now + CacheDuration
                  /\ e.is_fresh

\* A search has put a new snapshot on an entry that had expired, and the
\* fingerprint still has its single entry.
C24_Witness ==
    /\ last.called /\ ~last.raised /\ last.seen.entry
    /\ last.ret # last.seen.before
    /\ last.seen.expires_at < last.seen.t
    /\ Cardinality(Matching(cache, last.seen.fp)) = 1
    /\ \A e \in Matching(cache, last.seen.fp) : e.search_results = last.ret

\* ---------------------------------------------------------------------------
\* One execution of refresh_hotels_for_city up to its search request
\* (hotel_refresh_service.py 119-210) and _get_city_coordinates (44-117).
\* City names are sequences of words; coordinates are in 1/10000 degree.
\* ---------------------------------------------------------------------------

NumPlaces == 2

\* Locations the geocoding service can answer with.
Places == 1..NumPlaces

\* str.lower() on the words used here.
Lower(w) ==
    CASE w = "Miami" -> "miami"
      [] w = "New" -> "new"
      [] w = "York" -> "york"
      [] w = "North" -> "north"
      [] w = "Beach" -> "beach"
      [] w = "Springfield" -> "springfield"
      [] OTHER -> w

LowerSeq(s) == [i \in 1..Len(s) |-> Lower(s[i])]

\* `a in b` on strings, at the granularity of words.
Contains(b, a) ==
    \E i \in 1..(Len(b) - Len(a) + 1) : SubSeq(b, i, i + Len(a) - 1) = a

\* Lines 73-103, in the order of the dict literal (entries used here).
known_coordinates ==
    << [key |-> <<"New", "York">>, coords |-> <<407128, -740060>>],
       [key |-> <<"Miami">>, coords |-> <<257617, -801918>>] >>

DefaultPoint == <<0, 0>>

\* Lines 105-109: the first entry whose lower-cased key occurs in the
\* lower-cased city name; 0 when none does.
KnownIndex(name) ==
    LET hit == {i \in 1..Len(known_coordinates) :
                   Contains(LowerSeq(name), LowerSeq(known_coordinates[i].key))}
    IN  IF hit = {} THEN 0 ELSE CHOOSE i \in hit : \A j \in hit : i <= j

CityInputs ==
    { <<"Miami">>, <<"miami">>, <<"North", "Miami", "Beach">>,
      <<"New", "York">>, <<"York">>, <<"Springfield">> }

StateInputs == {"", "FL"}

\* What the autosuggest call does: it raises (HTTP error, no token, network
\* error, asyncio.run inside a running loop), or answers nothing, an empty
\* list, a suggestion without location, a location that is not a number, or
\* a location.
GeoAnswers ==
    {[kind |-> k, lat |-> 0, long |-> 0] :
        k \in {"raises", "none", "empty", "no_location", "not_number"}}
    \cup {[kind |-> "found", lat |-> p, long |-> -p] : p \in Places}

\* Lines 46-117. An exception anywhere in the try block, the call (line 59)
\* or float() (line 70), ends in the handler of lines 115-117.
get_city_coordinates(name, g) ==
    IF g.kind \in {"raises", "not_number"} THEN DefaultPoint
    ELSE IF g.kind = "found" THEN <<g.lat, g.long>>
    ELSE IF KnownIndex(name) # 0 THEN known_coordinates[KnownIndex(name)].coords
    ELSE DefaultPoint

\* Lines 142-143.
ResolveCoordinates ==
    /\ rpc = "start"
    /\ coords' = get_city_coordinates(rcity, geo)
    /\ rpc' = "located"
    /\ UNCHANGED <<rcity, rstate, geo, rcalls, rstatus, notCall>>

\* Lines 148-163 and 199-208: the request construction raises (the name
\* `city` is not defined in either branch of line 149) and the handler
\* returns the error result; line 166, the search call, is not reached.
BuildRequestRaises ==
    /\ rpc = "located"
    /\ BuildSearchRequest.raised
    /\ rstatus' = RefreshError(BuildSearchRequest.error).status
    /\ rpc' = "returned"
    /\ UNCHANGED <<rcity, rstate, geo, coords, rcalls, notCall>>

InitRefreshCall ==
    /\ InitCache /\ InitSched /\ InitStore /\ InitMoreBase
    /\ InitCacheFault /\ InitStats /\ InitLife
    /\ rcity \in CityInputs
    /\ rstate \in StateInputs
    /\ geo \in GeoAnswers
    /\ rpc = "start"
    /\ coords = DefaultPoint
    /\ rcalls = 0
    /\ rstatus = "in_progress"

NextRefreshCall ==
    \/ ResolveCoordinates
    \/ BuildRequestRaises

SpecRefreshCall == InitRefreshCall /\ [][NextRefreshCall]_vars

\* C25: every execution of a partition refresh issues exactly one search
\* call to the Inventory Source, after the coordinates are resolved.
C25_Original ==
    rpc = "returned" => rcalls = 1

\* ---------------------------------------------------------------------------
\* The job-statistics table and one statistics read.  Writers are the pool
\* threads (scheduler_service.py 147-158, 172-179); the reader is
\* get_scheduler_statistics (scheduler_controller.py 76-118) on the event
\* loop thread, working on the dict that get_scheduler_health returns
\* (scheduler_service.py 282: the table itself, not a copy).  No lock is
\* taken on either side.
\* ---------------------------------------------------------------------------

MaxExecs == 2

\* self.job_stats[job_id] = {...}: the entry of partition c is replaced, as a
\* whole, by the one of its next execution.
WriteJobStats(c) ==
    /\ executions[c] < MaxExecs
    /\ executions' = [executions EXCEPT ![c] = @ + 1]
    /\ UNCHANGED <<rdPc, countedFrom, detailsFrom, notStats>>

\* Lines 87-88: stats = get_scheduler_health(); job_stats = stats['job_stats'].
ReadStart ==
    /\ rdPc = "idle"
    /\ rdPc' = "counting"
    /\ UNCHANGED <<executions, countedFrom, detailsFrom, notStats>>

\* Lines 91-98: the counts and sums are computed from the entries present.
ReadCounts ==
    /\ rdPc = "counting"
    /\ countedFrom' = executions
    /\ rdPc' = "returning"
    /\ UNCHANGED <<executions, detailsFrom, notStats>>

\* Lines 100-114: the response carries "job_details": job_stats, the table
\* itself, whose entries are read when the response is serialised.
ReadDetails ==
    /\ rdPc = "returning"
    /\ detailsFrom' = executions
    /\ rdPc' = "done"
    /\ UNCHANGED <<executions, countedFrom, notStats>>

\* The response is sent.
ReadEnd ==
    /\ rdPc = "done"
    /\ rdPc' = "idle"
    /\ UNCHANGED <<executions, countedFrom, detailsFrom, notStats>>

NextStatsRead ==
    \/ \E c \in Cities : WriteJobStats(c)
    \/ ReadStart
    \/ ReadCounts
    \/ ReadDetails
    \/ ReadEnd

SpecStatsRead == Init /\ [][NextStatsRead]_vars

\* C26: updates of job_stats are synchronized with its readers: a
\* statistics read that overlaps executions sees, for each job, the entry
\* written by one single execution.
C26_Original ==
    rdPc = "done" => \A c \in Cities : countedFrom[c] = detailsFrom[c]

\* C27: when the geocoding call is unavailable (it raises, or it returns no
\* usable location) the partition resolves to the coordinates of the matching
\* entry of the known-coordinates table, and to (0.0, 0.0) only when no
\* entry matches.
C27_Original ==
    (rpc \in {"located", "returned"} /\ geo.kind # "found") =>
        coords = IF KnownIndex(rcity) # 0
                 THEN known_coordinates[KnownIndex(rcity)].coords
                 ELSE DefaultPoint

\* C28: when a cached search that missed completes successfully, the entry of
\* the fingerprint it has just stored is present and fresh on return: the
\* eviction that ends the search never deletes the entry just put.
C28_Original ==
    (last.called /\ ~last.raised) =>
        /\ Matching(cache, last.seen.fp) # {}
        /\ (last.seen.t = now =>
               \A e \in Matching(cache, last.seen.fp) : e.is_fresh)

\* ---------------------------------------------------------------------------
\* start_scheduler and stop_scheduler as methods of the service object
\* (scheduler_service.py 42-87), called in any order.  Each start builds a
\* new BackgroundScheduler with its own job store and thread pool and stores
\* it in self.scheduler; nothing looks at the scheduler stored before.
\* ---------------------------------------------------------------------------

MaxStarts == 3

RunningSchedulers == {i \in DOMAIN schedulers : schedulers[i] = "running"}

InFlightOf(i) == {x \in inflight : x[1] = i}

\* Lines 44-73: a new scheduler, one timer per configured city, started.
StartCall ==
    /\ Len(schedulers) < MaxStarts
    /\ schedulers' = Append(schedulers, "running")
    /\ timers' = Append(timers, Cities)
    /\ current' = Len(schedulers) + 1
    /\ UNCHANGED <<inflight, notLife>>

\* Lines 82-85: shutdown(wait=True) of the scheduler self.scheduler refers
\* to, when it is running (the call returns once its runs have ended and its
\* job store is emptied); nothing otherwise.
StopCall ==
    /\ IF current # 0 /\ schedulers[current] = "running"
       THEN /\ InFlightOf(current) = {}
            /\ schedulers' = [schedulers EXCEPT ![current] = "stopped"]
            /\ timers' = [timers EXCEPT ![current] = {}]
       ELSE UNCHANGED <<schedulers, timers>>
    /\ UNCHANGED <<current, inflight, notLife>>

\* The timer of city c of scheduler i fires and a worker of that scheduler's
\* pool starts the run (max_instances=1 holds per scheduler).
TimerFires(i, c) ==
    /\ i \in RunningSchedulers /\ c \in timers[i]
    /\ <<i, c>> \notin inflight
    /\ Cardinality(InFlightOf(i)) < MaxWorkers
    /\ inflight' = inflight \cup {<<i, c>>}
    /\ UNCHANGED <<schedulers, current, timers, notLife>>

\* The run ends.
RunEnds(i, c) ==
    /\ <<i, c>> \in inflight
    /\ inflight' = inflight \ {<<i, c>>}
    /\ UNCHANGED <<schedulers, current, timers, notLife>>

NextLifecycle ==
    \/ StartCall
    \/ StopCall
    \/ \E i \in 1..MaxStarts : \E c \in Cities : TimerFires(i, c)
    \/ \E i \in 1..MaxStarts : \E c \in Cities : RunEnds(i, c)

SpecLifecycle == Init /\ [][NextLifecycle]_vars

\* C29: after any sequence of start_scheduler and stop_scheduler calls at
\* most one scheduler is running and, while one runs, every partition has
\* exactly one active timer.
C29_Original ==
    /\ Cardinality(RunningSchedulers) <= 1
    /\ RunningSchedulers # {} =>
           \A c \in Cities :
               Cardinality({i \in RunningSchedulers : c \in timers[i]}) = 1

\* ---------------------------------------------------------------------------
\* POST /refresh/{city_name} with any city name (scheduler_controller.py
\* 243-266).  The class defines trigger_manual_refresh twice; the second
\* definition (scheduler_service.py 331-359) replaces the first (223-249) and
\* with it the lookup of _find_city_demand_level: the name is passed to
\* refresh_hotels_for_city as it comes.
\* ---------------------------------------------------------------------------

\* A partition that is in no tier of the configured table.
Unconfigured == {NumCities + 1}

NextManual ==
    \/ NextSched
    \/ \E p \in Unconfigured : ManualTrigger(p)

SpecManual == Init /\ [][NextManual]_vars

\* C30: a manual trigger for a partition that is not in the configured tier
\* table is rejected: no refresh is run for it.
C30_Original ==
    manual \notin Unconfigured

====
